---- MODULE Spec2Model ----
(***************************************************************************)
(* Model of tensorflow/compiler/xla/pjrt/utils.cc:                         *)
(*   GetShardedShape (both overloads), GetShardedProgramShapes and         *)
(*   GetParametersThatMustBeDonated.                                       *)
(*                                                                         *)
(* The three functions are pure.  Each gets a specification of its own     *)
(* (SpecShape, SpecProgram, SpecDonate) whose Init draws the arguments     *)
(* from bounded sets and whose actions walk the function's loops; the      *)
(* variables of the two functions a specification does not run stay at     *)
(* their idle values.                                                      *)
(***************************************************************************)
EXTENDS Integers, Sequences, FiniteSets, TLC

VARIABLES
    pc,                    \* position of the running call
    shape, sharding,       \* arguments of GetShardedShape
    has_sharding,          \* instr.has_sharding() of the wrapped instruction
    ret,                   \* the StatusOr the call returned
    program,               \* the XlaComputation (HloModuleProto + ProgramShape)
    comp_i, instr_i,       \* loop positions of GetShardedProgramShapes
    arg_shapes,            \* std::vector<Shape> arg_shapes
    result_shape,          \* Shape result_shape
    module,                \* the HloModule of GetParametersThatMustBeDonated
    tuple_inputs,          \* its bool argument
    number_of_parameters,  \* the local computed by the lambda
    alias_i,               \* position of ForEachAliasWithStatus
    parameters_to_donate   \* absl::flat_hash_set<int>

vars == <<pc, shape, sharding, has_sharding, ret, program, comp_i, instr_i,
          arg_shapes, result_shape, module, tuple_inputs,
          number_of_parameters, alias_i, parameters_to_donate>>

(***************************************************************************)
(* Bounds of the model.                                                    *)
(***************************************************************************)
MaxArity == 2
MaxInstrs == 2
MaxParams == 2
MaxAliases == 2

(***************************************************************************)
(* Shapes.  A Shape is a tree: an array leaf (element type, dimensions,    *)
(* an optional layout) or a tuple of child Shapes.  A default-constructed  *)
(* Shape has element type PRIMITIVE_TYPE_INVALID; the code uses it as the  *)
(* "unfilled" sentinel.                                                    *)
(***************************************************************************)
ArrayShape(dims, layout) ==
    [et |-> "F32", dims |-> dims, layout |-> layout, kids |-> <<>>]

MakeTupleShape(shapes) ==
    [et |-> "TUPLE", dims |-> <<>>, layout |-> FALSE, kids |-> shapes]

InvalidShape ==
    [et |-> "PRIMITIVE_TYPE_INVALID", dims |-> <<>>, layout |-> FALSE,
     kids |-> <<>>]

IsTuple(s) == s.et = "TUPLE"

RECURSIVE ClearLayout(_)
ClearLayout(s) ==
    [et |-> s.et, dims |-> s.dims, layout |-> FALSE,
     kids |-> [i \in 1..Len(s.kids) |-> ClearLayout(s.kids[i])]]

(***************************************************************************)
(* Shardings (OpSharding).  type is TUPLE (kids are the tuple_shardings),  *)
(* REPLICATED, or OTHER (tiled: tile are the tile_assignment_dimensions,   *)
(* devices the number of tile_assignment_devices).                         *)
(***************************************************************************)
TupleSharding(kids) ==
    [type |-> "TUPLE", tile |-> <<>>, devices |-> 0, kids |-> kids]

Replicated ==
    [type |-> "REPLICATED", tile |-> <<>>, devices |-> 0, kids |-> <<>>]

Tiled(tile, devices) ==
    [type |-> "OTHER", tile |-> tile, devices |-> devices, kids |-> <<>>]

(***************************************************************************)
(* StatusOr values.                                                        *)
(***************************************************************************)
Ok(s) == [ok |-> TRUE, err |-> "OK", arg |-> 0, shape |-> s]

Error(kind, arg) == [ok |-> FALSE, err |-> kind, arg |-> arg, shape |-> InvalidShape]

(***************************************************************************)
(* The external tiling operation: HloSharding::FromProto rejects a tiled   *)
(* descriptor whose tile dimensions do not multiply to its device count;   *)
(* HloSharding::TileShape leaves a shape alone under a tile-maximal        *)
(* sharding and otherwise divides every dimension, rounding up.            *)
(***************************************************************************)
CeilOfRatio(a, b) == (a + b - 1) \div b

RECURSIVE Product(_)
Product(seq) == IF seq = <<>> THEN 1 ELSE Head(seq) * Product(Tail(seq))

FromProtoOk(sh) == sh.type = "REPLICATED" \/ Product(sh.tile) = sh.devices

TileShape(s, sh) ==
    IF sh.type = "REPLICATED" THEN s
    ELSE [s EXCEPT !.dims =
              [i \in 1..Len(s.dims) |-> CeilOfRatio(s.dims[i], sh.tile[i])]]

Tile(s, sh) ==
    IF FromProtoOk(sh) THEN Ok(TileShape(s, sh)) ELSE Error("TilingError", 0)

(***************************************************************************)
(* GetShardedShape(const Shape&, const OpSharding&), lines 30-57.          *)
(***************************************************************************)
\* a slip in line 38: only a sharding with too few children is refused
TupleSizesDiffer_TooFewOnly(s, sh) == Len(sh.kids) < Len(s.kids)

TupleSizesDiffer(s, sh) == Len(sh.kids) # Len(s.kids)

\* a slip in line 49: every child is resolved against the first sharding
SubshapePair_FirstSharding(s, sh, i) == <<s.kids[i], sh.kids[1]>>

SubshapePair(s, sh, i) == <<s.kids[i], sh.kids[i]>>

RECURSIVE GetShardedShape(_, _)
RECURSIVE ShardSubshapes(_, _, _, _)

\* the for loop of lines 46-51, from child i on, sharded_subshapes so far
ShardSubshapes(s, sh, i, sharded_subshapes) ==
    IF i > Len(s.kids) THEN Ok(MakeTupleShape(sharded_subshapes))
    ELSE LET p == SubshapePair(s, sh, i)
             sub == GetShardedShape(p[1], p[2])
         IN  IF ~sub.ok THEN sub
             ELSE ShardSubshapes(s, sh, i + 1,
                                 Append(sharded_subshapes, sub.shape))

GetShardedShape(s, sh) ==
    IF sh.type = "TUPLE"
    THEN IF ~IsTuple(s) THEN Error("ShapeMismatch", 0)
         ELSE IF TupleSizesDiffer(s, sh) THEN Error("ArityMismatch", 0)
         ELSE ShardSubshapes(s, sh, 1, <<>>)
    ELSE Tile(s, sh)

(***************************************************************************)
(* GetShardedShape(const HloInstructionProto&), lines 59-70.               *)
(***************************************************************************)
GetShardedShapeOfInstr(instr) ==
    LET sharded == IF instr.has_sharding
                   THEN GetShardedShape(instr.shape, instr.sharding)
                   ELSE Ok(instr.shape)
    IN  IF ~sharded.ok THEN sharded ELSE Ok(ClearLayout(sharded.shape))

(***************************************************************************)
(* Values the variables of a call that is not running keep.                *)
(***************************************************************************)
NotReturned == [ok |-> FALSE, err |-> "NOT_RETURNED", arg |-> 0]

NoProgram == [program_shape_ok |-> TRUE, parameters_size |-> 0,
              entry_computation_id |-> 0, computations |-> <<>>]

NoModule == [num_parameters |-> 0, parameter0_is_tuple |-> FALSE,
             parameter0_tuple_shapes_size |-> 0, aliases |-> <<>>]

ShapeIdle ==
    /\ shape = InvalidShape /\ sharding = Replicated /\ has_sharding = FALSE

ProgramIdle ==
    /\ program = NoProgram /\ comp_i = 0 /\ instr_i = 0
    /\ arg_shapes = <<>> /\ result_shape = InvalidShape

DonateIdle ==
    /\ module = NoModule /\ tuple_inputs = FALSE
    /\ number_of_parameters = 0 /\ alias_i = 0
    /\ parameters_to_donate = {}

shapeVars == <<shape, sharding, has_sharding>>
programVars == <<program, comp_i, instr_i, arg_shapes, result_shape>>
donateVars == <<module, tuple_inputs, number_of_parameters, alias_i,
                parameters_to_donate>>

(***************************************************************************)
(* SpecShape: one call of either GetShardedShape overload.                 *)
(***************************************************************************)
SeqsUpTo(S, n) == UNION {[1..k -> S] : k \in 0..n}

LeafShapes == {ArrayShape(<<4>>, TRUE), ArrayShape(<<5>>, FALSE)}

ChildShapes ==
    LeafShapes \cup
    {MakeTupleShape(<<ArrayShape(<<4>>, TRUE)>>),
     MakeTupleShape(<<ArrayShape(<<5>>, FALSE), ArrayShape(<<4>>, TRUE)>>)}

Shapes ==
    LeafShapes \cup {MakeTupleShape(k) : k \in SeqsUpTo(ChildShapes, MaxArity)}

LeafShardings == {Replicated, Tiled(<<2>>, 2), Tiled(<<2>>, 3)}

ChildShardings ==
    LeafShardings \cup
    {TupleSharding(<<Replicated>>),
     TupleSharding(<<Tiled(<<2>>, 2), Replicated>>)}

Shardings ==
    LeafShardings \cup
    {TupleSharding(k) : k \in SeqsUpTo(ChildShardings, MaxArity)}

InitShape ==
    /\ pc = "start"
    /\ shape \in Shapes
    /\ sharding \in Shardings
    /\ has_sharding \in BOOLEAN
    /\ ret = NotReturned
    /\ ProgramIdle /\ DonateIdle

CallGetShardedShape ==
    /\ pc = "start"
    /\ ret' = GetShardedShape(shape, sharding)
    /\ pc' = "resolved"
    /\ UNCHANGED <<shapeVars, programVars, donateVars>>

CallGetShardedShapeOfInstr ==
    /\ pc = "start"
    /\ ret' = GetShardedShapeOfInstr([shape |-> shape,
                                      has_sharding |-> has_sharding,
                                      sharding |-> sharding])
    /\ pc' = "instr_resolved"
    /\ UNCHANGED <<shapeVars, programVars, donateVars>>

NextShape == CallGetShardedShape \/ CallGetShardedShapeOfInstr

SpecShape == InitShape /\ [][NextShape]_vars

(***************************************************************************)
(* C7 (rejection law).  A tuple sharding on a non-tuple shape fails with   *)
(* ShapeMismatch, a tuple sharding whose child count differs from the      *)
(* tuple shape's fails with ArityMismatch, and such a mismatch in any      *)
(* nested child pair makes the whole resolution fail.                      *)
(***************************************************************************)
RECURSIVE NestedMismatch(_, _)
NestedMismatch(s, sh) ==
    /\ sh.type = "TUPLE"
    /\ \/ ~IsTuple(s)
       \/ Len(sh.kids) # Len(s.kids)
       \/ \E i \in 1..Len(s.kids) : NestedMismatch(s.kids[i], sh.kids[i])

C7_RejectionLaw ==
    pc = "resolved" =>
        /\ (sharding.type = "TUPLE" /\ ~IsTuple(shape))
               => (~ret.ok /\ ret.err = "ShapeMismatch")
        /\ (sharding.type = "TUPLE" /\ IsTuple(shape)
              /\ Len(sharding.kids) # Len(shape.kids))
               => (~ret.ok /\ ret.err = "ArityMismatch")
        /\ NestedMismatch(shape, sharding) => ~ret.ok

C7_Witness ==
    /\ pc = "resolved"
    /\ sharding.type = "TUPLE" /\ IsTuple(shape)
    /\ Len(sharding.kids) = Len(shape.kids) /\ Len(shape.kids) = 2
    /\ ~NestedMismatch(shape.kids[1], sharding.kids[1])
    /\ IsTuple(shape.kids[2]) /\ sharding.kids[2].type = "TUPLE"
    /\ Len(sharding.kids[2].kids) > Len(shape.kids[2].kids)
    /\ ~ret.ok /\ ret.err = "ArityMismatch"

(***************************************************************************)
(* C9 (structural recursion law).  Resolving a tuple shape against a tuple *)
(* sharding of the same arity gives the tuple of the children's            *)
(* resolutions, child i against sharding i, in the original order; when a  *)
(* child fails the result is the failure of the first failing child.       *)
(***************************************************************************)
C9_StructuralRecursion ==
    (/\ pc = "resolved"
     /\ IsTuple(shape) /\ sharding.type = "TUPLE"
     /\ Len(sharding.kids) = Len(shape.kids)) =>
        LET n == Len(shape.kids)
            r == [i \in 1..n |-> GetShardedShape(shape.kids[i], sharding.kids[i])]
            bad == {i \in 1..n : ~r[i].ok}
        IN  IF bad = {}
            THEN ret = Ok(MakeTupleShape([i \in 1..n |-> r[i].shape]))
            ELSE ret = r[CHOOSE i \in bad : \A j \in bad : i <= j]

C9_Witness ==
    /\ pc = "resolved"
    /\ IsTuple(shape) /\ sharding.type = "TUPLE"
    /\ Len(shape.kids) = 2 /\ Len(sharding.kids) = 2
    /\ IsTuple(shape.kids[1]) /\ ~IsTuple(shape.kids[2])
    /\ ret.ok
    /\ ret.shape.kids[1] # shape.kids[1]
    /\ ret.shape.kids[2] # shape.kids[2]
    /\ ret.shape.kids[1] # ret.shape.kids[2]

(***************************************************************************)
(* GetShardedProgramShapes, lines 75-113.                                  *)
(*                                                                         *)
(* An instruction is [id, opcode, parameter_number, shape, has_sharding,   *)
(* sharding]; a computation [id, root_id, instructions]; a program         *)
(* [program_shape_ok, parameters_size, entry_computation_id,               *)
(* computations], program_shape_ok telling whether GetProgramShape()       *)
(* returns a ProgramShape or an error.  The state of the scan is [status,  *)
(* arg_shapes, result_shape]; arg_shapes[k + 1] is the C++ arg_shapes[k].  *)
(***************************************************************************)
ProgramOk(args, res) ==
    [ok |-> TRUE, err |-> "OK", arg |-> 0, arg_shapes |-> args,
     result_shape |-> res]

ProgramError(kind, arg) ==
    [ok |-> FALSE, err |-> kind, arg |-> arg, arg_shapes |-> <<>>,
     result_shape |-> InvalidShape]

Running(args, res) ==
    [status |-> "OK", arg |-> 0, arg_shapes |-> args, result_shape |-> res]

Failed(kind, arg, args, res) ==
    [status |-> kind, arg |-> arg, arg_shapes |-> args, result_shape |-> res]

\* line 80: arg_shapes.resize(program_shape.parameters_size())
ResizeArgShapes(parameters_size) == [k \in 1..parameters_size |-> InvalidShape]

IsParameter(instr) == instr.opcode = "parameter"

\* line 88
ParameterNumberInvalid(instr, parameters_size) ==
    instr.parameter_number >= parameters_size

\* line 96
IsRoot(instr, root_id) == instr.id = root_id

\* line 97
ResultFilled(res) == res.et # "PRIMITIVE_TYPE_INVALID"

\* lines 87-95: the parameter branch of the loop body
ParameterBranch(args, res, instr, parameters_size) ==
    IF ~IsParameter(instr) THEN Running(args, res)
    ELSE IF ParameterNumberInvalid(instr, parameters_size)
    THEN Failed("InvalidParameterIndex", instr.parameter_number, args, res)
    ELSE LET sharded == GetShardedShapeOfInstr(instr)
         IN  IF ~sharded.ok THEN Failed(sharded.err, sharded.arg, args, res)
             ELSE Running([args EXCEPT ![instr.parameter_number + 1] =
                                           sharded.shape], res)

\* a slip in lines 97-99: a second root overwrites the result slot
RootBranch_Overwrite(args, res, instr, root_id) ==
    IF ~IsRoot(instr, root_id) THEN Running(args, res)
    ELSE LET sharded == GetShardedShapeOfInstr(instr)
         IN  IF ~sharded.ok THEN Failed(sharded.err, sharded.arg, args, res)
             ELSE Running(args, sharded.shape)

\* lines 96-101: the root branch of the loop body
RootBranch(args, res, instr, root_id) ==
    IF ~IsRoot(instr, root_id) THEN Running(args, res)
    ELSE IF ResultFilled(res) THEN Failed("MultipleRoots", 0, args, res)
    ELSE LET sharded == GetShardedShapeOfInstr(instr)
         IN  IF ~sharded.ok THEN Failed(sharded.err, sharded.arg, args, res)
             ELSE Running(args, sharded.shape)

\* lines 86-102: one iteration of the loop over comp.instructions()
ScanInstr(args, res, instr, root_id, parameters_size) ==
    LET p == ParameterBranch(args, res, instr, parameters_size)
    IN  IF p.status # "OK" THEN p
        ELSE RootBranch(p.arg_shapes, p.result_shape, instr, root_id)

\* lines 104-108: the slots still unfilled after the scan
UnfilledSlots(args) ==
    {k \in 0..(Len(args) - 1) : args[k + 1].et = "PRIMITIVE_TYPE_INVALID"}

\* a slip in lines 104-108: the last unfilled slot is reported
FirstUnfilled_Last(args) ==
    CHOOSE k \in UnfilledSlots(args) : \A j \in UnfilledSlots(args) : k >= j

FirstUnfilled(args) ==
    CHOOSE k \in UnfilledSlots(args) : \A j \in UnfilledSlots(args) : k <= j

\* lines 104-112
CheckSlots(args, res) ==
    IF UnfilledSlots(args) # {}
    THEN ProgramError("MissingParameter", FirstUnfilled(args))
    ELSE IF ~ResultFilled(res) THEN ProgramError("MissingRoot", 0)
    ELSE ProgramOk(args, res)

IsEntry(comp, prog) == comp.id = prog.entry_computation_id

\* the whole function, as the fold of the same loop bodies
RECURSIVE ScanInstrs(_, _, _, _, _)
ScanInstrs(st, instrs, i, root_id, parameters_size) ==
    IF st.status # "OK" \/ i > Len(instrs) THEN st
    ELSE ScanInstrs(ScanInstr(st.arg_shapes, st.result_shape, instrs[i],
                              root_id, parameters_size),
                    instrs, i + 1, root_id, parameters_size)

RECURSIVE ScanComputations(_, _, _)
ScanComputations(st, prog, c) ==
    IF st.status # "OK" \/ c > Len(prog.computations) THEN st
    ELSE LET comp == prog.computations[c]
         IN  ScanComputations(
                 IF IsEntry(comp, prog)
                 THEN ScanInstrs(st, comp.instructions, 1, comp.root_id,
                                 prog.parameters_size)
                 ELSE st,
                 prog, c + 1)

GetShardedProgramShapes(prog) ==
    LET st == ScanComputations(
                  Running(ResizeArgShapes(prog.parameters_size), InvalidShape),
                  prog, 1)
    IN  IF ~prog.program_shape_ok THEN ProgramError("ProgramShapeError", 0)
        ELSE IF st.status # "OK" THEN ProgramError(st.status, st.arg)
        ELSE CheckSlots(st.arg_shapes, st.result_shape)

(***************************************************************************)
(* SpecProgram: one call of GetShardedProgramShapes.  The programs drawn   *)
(* are well-formed protos: parameter numbers are not negative and no       *)
(* instruction shape has element type PRIMITIVE_TYPE_INVALID.              *)
(***************************************************************************)
InstrShapes ==
    {[shape |-> ArrayShape(<<4>>, TRUE), has_sharding |-> FALSE,
      sharding |-> Replicated],
     [shape |-> ArrayShape(<<5>>, FALSE), has_sharding |-> TRUE,
      sharding |-> Tiled(<<2>>, 2)],
     [shape |-> MakeTupleShape(<<ArrayShape(<<4>>, TRUE)>>),
      has_sharding |-> TRUE,
      sharding |-> TupleSharding(<<Replicated, Replicated>>)]}

Instr(id, opcode, parameter_number, v) ==
    [id |-> id, opcode |-> opcode, parameter_number |-> parameter_number,
     shape |-> v.shape, has_sharding |-> v.has_sharding,
     sharding |-> v.sharding]

Instrs ==
    {Instr(id, "parameter", n, v) :
        id \in 1..2, n \in 0..MaxParams, v \in InstrShapes}
    \cup {Instr(id, "add", 0, v) : id \in 1..2, v \in InstrShapes}

EntryComputation(instrs) == [id |-> 1, root_id |-> 1, instructions |-> instrs]

\* a computation that is not the entry: the scan must skip it
OtherComputation ==
    [id |-> 2, root_id |-> 1,
     instructions |->
        <<Instr(1, "parameter", 0,
                [shape |-> ArrayShape(<<5>>, FALSE), has_sharding |-> FALSE,
                 sharding |-> Replicated])>>]

\* the computations of a program: the entry computation alone, or with the
\* other computation before or after it
Arrangements(instrs) ==
    {<<EntryComputation(instrs)>>,
     <<OtherComputation, EntryComputation(instrs)>>,
     <<EntryComputation(instrs), OtherComputation>>}

Program(shape_ok, n, cs) ==
    [program_shape_ok |-> shape_ok, parameters_size |-> n,
     entry_computation_id |-> 1, computations |-> cs]

InitProgram ==
    /\ pc = "start"
    /\ \E shape_ok \in BOOLEAN, n \in 0..MaxParams, k \in 0..MaxInstrs :
          \E instrs \in [1..k -> Instrs] :
              \E cs \in Arrangements(instrs) :
                  program = Program(shape_ok, n, cs)
    /\ comp_i = 0 /\ instr_i = 0
    /\ arg_shapes = <<>> /\ result_shape = InvalidShape
    /\ ret = NotReturned
    /\ ShapeIdle /\ DonateIdle

\* lines 77-81
GetProgramShape ==
    /\ pc = "start"
    /\ IF program.program_shape_ok
       THEN /\ arg_shapes' = ResizeArgShapes(program.parameters_size)
            /\ result_shape' = InvalidShape
            /\ comp_i' = 1
            /\ pc' = "computations"
            /\ UNCHANGED ret
       ELSE /\ ret' = ProgramError("ProgramShapeError", 0)
            /\ pc' = "done"
            /\ UNCHANGED <<arg_shapes, result_shape, comp_i>>
    /\ UNCHANGED <<program, instr_i, shapeVars, donateVars>>

\* lines 82-85: a computation that is not the entry computation
SkipComputation ==
    /\ pc = "computations"
    /\ comp_i <= Len(program.computations)
    /\ ~IsEntry(program.computations[comp_i], program)
    /\ comp_i' = comp_i + 1
    /\ UNCHANGED <<pc, program, instr_i, arg_shapes, result_shape, ret,
                   shapeVars, donateVars>>

\* lines 82-86: the entry computation
EnterComputation ==
    /\ pc = "computations"
    /\ comp_i <= Len(program.computations)
    /\ IsEntry(program.computations[comp_i], program)
    /\ instr_i' = 1
    /\ pc' = "instructions"
    /\ UNCHANGED <<program, comp_i, arg_shapes, result_shape, ret,
                   shapeVars, donateVars>>

\* lines 86-102: one instruction
ScanInstruction ==
    /\ pc = "instructions"
    /\ instr_i <= Len(program.computations[comp_i].instructions)
    /\ LET comp == program.computations[comp_i]
           st == ScanInstr(arg_shapes, result_shape, comp.instructions[instr_i],
                           comp.root_id, program.parameters_size)
       IN  /\ arg_shapes' = st.arg_shapes
           /\ result_shape' = st.result_shape
           /\ IF st.status = "OK"
              THEN /\ instr_i' = instr_i + 1
                   /\ UNCHANGED <<pc, ret>>
              ELSE /\ ret' = ProgramError(st.status, st.arg)
                   /\ pc' = "done"
                   /\ UNCHANGED instr_i
    /\ UNCHANGED <<program, comp_i, shapeVars, donateVars>>

\* line 102-103: the end of the instruction list
LeaveComputation ==
    /\ pc = "instructions"
    /\ instr_i > Len(program.computations[comp_i].instructions)
    /\ comp_i' = comp_i + 1
    /\ pc' = "computations"
    /\ UNCHANGED <<program, instr_i, arg_shapes, result_shape, ret,
                   shapeVars, donateVars>>

\* lines 104-112
ReturnProgramShapes ==
    /\ pc = "computations"
    /\ comp_i > Len(program.computations)
    /\ ret' = CheckSlots(arg_shapes, result_shape)
    /\ pc' = "done"
    /\ UNCHANGED <<program, comp_i, instr_i, arg_shapes, result_shape,
                   shapeVars, donateVars>>

NextProgram ==
    \/ GetProgramShape
    \/ SkipComputation
    \/ EnterComputation
    \/ ScanInstruction
    \/ LeaveComputation
    \/ ReturnProgramShapes

SpecProgram == InitProgram /\ [][NextProgram]_vars

\* the stepwise scan returns what the function returns
ScanIsFunction == pc = "done" => ret = GetShardedProgramShapes(program)

(***************************************************************************)
(* What the claims about GetShardedProgramShapes speak of.                 *)
(***************************************************************************)
EntryIndex(prog) ==
    CHOOSE c \in 1..Len(prog.computations) : IsEntry(prog.computations[c], prog)

EntryOf(prog) == prog.computations[EntryIndex(prog)]

EntryInstrs == EntryOf(program).instructions

DeclaredCount == program.parameters_size

\* the positions of the parameter instructions with parameter index i
ParamInstrsWith(i) ==
    {k \in 1..Len(EntryInstrs) :
        IsParameter(EntryInstrs[k]) /\ EntryInstrs[k].parameter_number = i}

\* the positions of the instructions whose id is the declared root id
RootInstrs ==
    {k \in 1..Len(EntryInstrs) : EntryInstrs[k].id = EntryOf(program).root_id}

\* the indices in [0, declared count) no parameter instruction carries
MissingIndices == {i \in 0..(DeclaredCount - 1) : ParamInstrsWith(i) = {}}

Resolves(instr) == GetShardedShapeOfInstr(instr).ok

\* the parameter instruction at position k passes lines 88-94
ParamPasses(k) ==
    IsParameter(EntryInstrs[k]) =>
        /\ EntryInstrs[k].parameter_number < DeclaredCount
        /\ Resolves(EntryInstrs[k])

\* GetProgramShape succeeds and no instruction of the entry computation
\* makes the scan return early
ScanRaisesNoError ==
    /\ program.program_shape_ok
    /\ \A k \in 1..Len(EntryInstrs) : ParamPasses(k)
    /\ \A k \in RootInstrs : Resolves(EntryInstrs[k])
    /\ Cardinality(RootInstrs) <= 1

Least(S) == CHOOSE k \in S : \A j \in S : k <= j

(***************************************************************************)
(* C1 (completeness law), as claimed: for every i in [0, declared count)   *)
(* the call fails with MissingParameter(i) iff no parameter instruction    *)
(* of the entry computation has parameter index i.                         *)
(***************************************************************************)
C1_Completeness ==
    pc = "done" =>
        \A i \in 0..(DeclaredCount - 1) :
            (ret = ProgramError("MissingParameter", i)) <=> (i \in MissingIndices)

(***************************************************************************)
(* C1, amended: the call fails with MissingParameter(i) iff nothing        *)
(* returns an error earlier (GetProgramShape succeeds, no parameter index  *)
(* out of range, no failed shape resolution of a parameter or root         *)
(* instruction, no second root)                                            *)
(* and i is the smallest index in [0, declared count) that no parameter    *)
(* instruction carries.                                                    *)
(***************************************************************************)
C1_CompletenessFirstMissing ==
    pc = "done" =>
        \A i \in 0..(DeclaredCount - 1) :
            (ret = ProgramError("MissingParameter", i)) <=>
                (/\ ScanRaisesNoError
                 /\ i \in MissingIndices
                 /\ i = Least(MissingIndices))

C1_Witness ==
    /\ pc = "done"
    /\ Cardinality(MissingIndices) = 2
    /\ Cardinality(RootInstrs) = 1
    /\ Len(EntryInstrs) = 2
    /\ ret = ProgramError("MissingParameter", 0)

(***************************************************************************)
(* C2 (uniqueness law), as claimed: the call fails with MultipleRoots iff  *)
(* two or more instructions of the entry computation have the declared     *)
(* root id.                                                                *)
(***************************************************************************)
C2_Uniqueness ==
    pc = "done" =>
        ((ret = ProgramError("MultipleRoots", 0)) <=> (Cardinality(RootInstrs) >= 2))

(***************************************************************************)
(* C2, amended: the call fails with MultipleRoots iff two or more          *)
(* instructions have the declared root id and no error is returned before  *)
(* the second of them is recognised: GetProgramShape succeeds, every       *)
(* parameter instruction up to and including it has an index in range and  *)
(* a shape that resolves, and the first root instruction's shape resolves. *)
(***************************************************************************)
C2_UniquenessUnlessEarlierError ==
    pc = "done" =>
        ((ret = ProgramError("MultipleRoots", 0)) <=>
            (/\ program.program_shape_ok
             /\ Cardinality(RootInstrs) >= 2
             /\ LET k1 == Least(RootInstrs)
                    k2 == Least(RootInstrs \ {k1})
                IN  /\ \A k \in 1..k2 : ParamPasses(k)
                    /\ Resolves(EntryInstrs[k1])))

C2_Witness ==
    /\ pc = "done"
    /\ Cardinality(RootInstrs) = 2
    /\ \E k \in RootInstrs : IsParameter(EntryInstrs[k])
    /\ Len(program.computations) = 2
    /\ ret = ProgramError("MultipleRoots", 0)

(***************************************************************************)
(* C5 (order independence), as claimed: the returned argument shapes and   *)
(* result shape are the same for every permutation of the entry            *)
(* computation's instruction list.                                         *)
(***************************************************************************)
PermuteEntry(prog, f) ==
    LET e == EntryIndex(prog)
        is == prog.computations[e].instructions
    IN  [prog EXCEPT !.computations[e].instructions =
                         [k \in 1..Len(is) |-> is[f[k]]]]

Outcome(r) ==
    [ok |-> r.ok, arg_shapes |-> r.arg_shapes, result_shape |-> r.result_shape]

C5_OrderIndependence ==
    pc = "done" =>
        \A f \in Permutations(1..Len(EntryInstrs)) :
            Outcome(GetShardedProgramShapes(PermuteEntry(program, f)))
                = Outcome(ret)

\* the same, for the programs in which no two parameter instructions carry
\* the same parameter index: the order matters only through the overwrite
OrderIndependentWithoutDuplicates ==
    (pc = "done" /\ \A i \in 0..MaxParams : Cardinality(ParamInstrsWith(i)) <= 1)
        => \A f \in Permutations(1..Len(EntryInstrs)) :
               Outcome(GetShardedProgramShapes(PermuteEntry(program, f)))
                   = Outcome(ret)

(***************************************************************************)
(* C6 (invariant P1), as claimed: shapes are returned only when the        *)
(* parameter indices of the entry computation's parameter instructions     *)
(* are unique and exactly cover [0, declared count).                       *)
(***************************************************************************)
C6_UniqueContiguousIndices ==
    (pc = "done" /\ ret.ok) =>
        /\ \A i \in 0..(DeclaredCount - 1) : Cardinality(ParamInstrsWith(i)) = 1
        /\ \A k \in 1..Len(EntryInstrs) :
               IsParameter(EntryInstrs[k]) =>
                   EntryInstrs[k].parameter_number \in 0..(DeclaredCount - 1)

\* the part of P1 the code does enforce: no gap, no index out of range
NoGapWhenShapesReturned ==
    (pc = "done" /\ ret.ok) =>
        /\ \A i \in 0..(DeclaredCount - 1) : Cardinality(ParamInstrsWith(i)) >= 1
        /\ \A k \in 1..Len(EntryInstrs) :
               IsParameter(EntryInstrs[k]) =>
                   EntryInstrs[k].parameter_number \in 0..(DeclaredCount - 1)

(***************************************************************************)
(* GetParametersThatMustBeDonated, lines 115-167.                          *)
(*                                                                         *)
(* The module is [num_parameters, parameter0_is_tuple,                     *)
(* parameter0_tuple_shapes_size, aliases]; an alias is [parameter_number,  *)
(* parameter_index], parameter_index a sequence (a ShapeIndex).  The       *)
(* output index the callback also receives is not read by it.  Alias       *)
(* numbers are signed and within the range of int, so the narrowing of     *)
(* lines 145 and 155 keeps their value.                                    *)
(***************************************************************************)
DonateOk(set) == [ok |-> TRUE, err |-> "OK", arg |-> 0, set |-> set]

DonateError(kind, arg) == [ok |-> FALSE, err |-> kind, arg |-> arg, set |-> {}]

\* lines 120 and 123: the CHECKs of the tupled mode
ChecksPass(m, tupled) ==
    tupled => (m.num_parameters = 1 /\ m.parameter0_is_tuple)

\* lines 118-128, when the CHECKs pass
NumberOfParameters(m, tupled) ==
    IF tupled THEN m.parameter0_tuple_shapes_size ELSE m.num_parameters

\* a slip in lines 146 and 156: > for >=
OutOfRange_OffByOne(this_parameter, n) == this_parameter > n

\* lines 146 and 156
OutOfRange(this_parameter, n) == this_parameter >= n

Visited(status, arg, donate) ==
    [status |-> status, arg |-> arg, parameters_to_donate |-> donate]

\* a slip in lines 137-144: the parameter number is checked only for an
\* alias whose index path is not empty
AliasCallback_PathFirst(donate, alias, tupled, n) ==
    IF tupled
    THEN IF alias.parameter_index # <<>>
         THEN IF alias.parameter_number # 0
              THEN Visited("UnexpectedParameterNumber", alias.parameter_number,
                           donate)
              ELSE LET this_parameter == alias.parameter_index[1]
                   IN  IF OutOfRange(this_parameter, n)
                       THEN Visited("IndexOutOfRange", this_parameter, donate)
                       ELSE Visited("OK", 0, donate \cup {this_parameter})
         ELSE Visited("OK", 0, donate)
    ELSE LET this_parameter == alias.parameter_number
         IN  IF OutOfRange(this_parameter, n)
             THEN Visited("IndexOutOfRange", this_parameter, donate)
             ELSE Visited("OK", 0, donate \cup {this_parameter})

\* lines 134-165: the callback on one alias
AliasCallback(donate, alias, tupled, n) ==
    IF tupled
    THEN IF alias.parameter_number # 0
         THEN Visited("UnexpectedParameterNumber", alias.parameter_number, donate)
         ELSE IF alias.parameter_index # <<>>
         THEN LET this_parameter == alias.parameter_index[1]
              IN  IF OutOfRange(this_parameter, n)
                  THEN Visited("IndexOutOfRange", this_parameter, donate)
                  ELSE Visited("OK", 0, donate \cup {this_parameter})
         ELSE Visited("OK", 0, donate)
    ELSE LET this_parameter == alias.parameter_number
         IN  IF OutOfRange(this_parameter, n)
             THEN Visited("IndexOutOfRange", this_parameter, donate)
             ELSE Visited("OK", 0, donate \cup {this_parameter})

(***************************************************************************)
(* SpecDonate: one call of GetParametersThatMustBeDonated.                 *)
(***************************************************************************)
Alias(parameter_number, parameter_index) ==
    [parameter_number |-> parameter_number, parameter_index |-> parameter_index]

ParameterIndices ==
    {<<>>, <<1, 0>>} \cup {<<k>> : k \in (0 - 1)..MaxParams}

Aliases ==
    {Alias(n, <<>>) : n \in (0 - 1)..MaxParams}
    \cup {Alias(n, index) : n \in 0..1, index \in ParameterIndices}

Module(num_parameters, is_tuple, tuple_shapes_size, aliases) ==
    [num_parameters |-> num_parameters, parameter0_is_tuple |-> is_tuple,
     parameter0_tuple_shapes_size |-> tuple_shapes_size, aliases |-> aliases]

\* the entry computations: flat parameters, one tuple parameter, and one
\* that has a tuple parameter beside another
EntryParameters ==
    {<<n, FALSE, 0>> : n \in 0..MaxParams}
    \cup {<<1, TRUE, k>> : k \in 0..MaxParams}
    \cup {<<2, TRUE, 1>>}

InitDonate ==
    /\ pc = "start"
    /\ tuple_inputs \in BOOLEAN
    /\ \E e \in EntryParameters, k \in 0..MaxAliases :
          \E aliases \in [1..k -> Aliases] :
              module = Module(e[1], e[2], e[3], aliases)
    /\ number_of_parameters = 0
    /\ alias_i = 0
    /\ parameters_to_donate = {}
    /\ ret = NotReturned
    /\ ShapeIdle /\ ProgramIdle

\* lines 117-132; a failed CHECK ends the process
ComputeNumberOfParameters ==
    /\ pc = "start"
    /\ IF ChecksPass(module, tuple_inputs)
       THEN /\ number_of_parameters' = NumberOfParameters(module, tuple_inputs)
            /\ alias_i' = 1
            /\ pc' = "aliases"
       ELSE /\ pc' = "aborted"
            /\ UNCHANGED <<number_of_parameters, alias_i>>
    /\ parameters_to_donate' = {}
    /\ UNCHANGED <<module, tuple_inputs, ret, shapeVars, programVars>>

\* lines 133-165: ForEachAliasWithStatus calls the callback on the next
\* alias and stops at the first status that is not OK
VisitAlias ==
    /\ pc = "aliases"
    /\ alias_i <= Len(module.aliases)
    /\ LET v == AliasCallback(parameters_to_donate, module.aliases[alias_i],
                              tuple_inputs, number_of_parameters)
       IN  /\ parameters_to_donate' = v.parameters_to_donate
           /\ IF v.status = "OK"
              THEN /\ alias_i' = alias_i + 1
                   /\ UNCHANGED <<pc, ret>>
              ELSE /\ ret' = DonateError(v.status, v.arg)
                   /\ pc' = "done"
                   /\ UNCHANGED alias_i
    /\ UNCHANGED <<module, tuple_inputs, number_of_parameters, shapeVars,
                   programVars>>

\* line 166
ReturnDonated ==
    /\ pc = "aliases"
    /\ alias_i > Len(module.aliases)
    /\ ret' = DonateOk(parameters_to_donate)
    /\ pc' = "done"
    /\ UNCHANGED <<module, tuple_inputs, number_of_parameters, alias_i,
                   parameters_to_donate, shapeVars, programVars>>

NextDonate == ComputeNumberOfParameters \/ VisitAlias \/ ReturnDonated

SpecDonate == InitDonate /\ [][NextDonate]_vars

(***************************************************************************)
(* What the claims about GetParametersThatMustBeDonated speak of.          *)
(***************************************************************************)
AliasList == module.aliases

AliasPositions == 1..Len(AliasList)

\* the number the bounds check of alias k reads, when it reads one
HasCheckedNumber(k) ==
    tuple_inputs => AliasList[k].parameter_index # <<>>

CheckedNumber(k) ==
    IF tuple_inputs THEN AliasList[k].parameter_index[1]
    ELSE AliasList[k].parameter_number

\* the aliases whose number is >= number_of_parameters
Offending ==
    {k \in AliasPositions :
        HasCheckedNumber(k) /\ CheckedNumber(k) >= number_of_parameters}

ValidIndices == 0..(number_of_parameters - 1)

(***************************************************************************)
(* C3 (donation soundness), as claimed: a returned set is, with flat       *)
(* inputs, the set of the aliases' parameter numbers filtered to the       *)
(* valid indices and, with tupled inputs, the set of the first path        *)
(* components of the aliases whose path is not empty.                      *)
(***************************************************************************)
C3_DonationSoundness ==
    (pc = "done" /\ ret.ok) =>
        IF tuple_inputs
        THEN ret.set = {AliasList[k].parameter_index[1] :
                           k \in {j \in AliasPositions :
                                     AliasList[j].parameter_index # <<>>}}
        ELSE ret.set = {AliasList[k].parameter_number : k \in AliasPositions}
                           \cap ValidIndices

\* the same law for the configurations without a negative number: the
\* missing lower bound check is all that breaks it
NoNegativeNumber ==
    \A k \in AliasPositions : HasCheckedNumber(k) => CheckedNumber(k) >= 0

DonationSoundWithoutNegatives == NoNegativeNumber => C3_DonationSoundness

(***************************************************************************)
(* C4 (bounds law), as claimed: if any alias, at any position, has a       *)
(* parameter number (flat) or first path component (tupled) that is        *)
(* >= number_of_parameters, the call fails with IndexOutOfRange.           *)
(***************************************************************************)
C4_BoundsLaw ==
    (pc = "done" /\ Offending # {}) => (~ret.ok /\ ret.err = "IndexOutOfRange")

(***************************************************************************)
(* C4, amended: if any alias, at any position, has such a number the call  *)
(* fails and returns no set; the error is IndexOutOfRange for the first    *)
(* such alias, unless, with tupled inputs, that alias or one before it has *)
(* a parameter number other than 0, and then the error is                  *)
(* UnexpectedParameterNumber.                                              *)
(***************************************************************************)
C4_BoundsLawUnlessUnexpectedNumber ==
    (pc = "done" /\ Offending # {}) =>
        LET first == Least(Offending)
        IN  /\ ~ret.ok /\ ret.set = {}
            /\ IF tuple_inputs
                    /\ \E k \in 1..first : AliasList[k].parameter_number # 0
               THEN ret.err = "UnexpectedParameterNumber"
               ELSE ret = DonateError("IndexOutOfRange", CheckedNumber(first))

C4_Witness ==
    /\ pc = "done"
    /\ Len(AliasList) = 2
    /\ Offending = {2}
    /\ HasCheckedNumber(1) /\ CheckedNumber(1) \in ValidIndices
    /\ ret = DonateError("IndexOutOfRange", number_of_parameters)

(***************************************************************************)
(* C8.  With tupled inputs the first alias whose parameter number is not   *)
(* 0 makes the call fail with UnexpectedParameterNumber whatever its index *)
(* path is (empty, in range or out of range), provided no alias before it  *)
(* is out of range; and a set is returned only if every alias has          *)
(* parameter number 0.                                                     *)
(***************************************************************************)
NonZeroNumbered == {k \in AliasPositions : AliasList[k].parameter_number # 0}

C8_UnexpectedParameterNumber ==
    (pc = "done" /\ tuple_inputs) =>
        /\ ret.ok => NonZeroNumbered = {}
        /\ (/\ NonZeroNumbered # {}
            /\ \A k \in Offending : k >= Least(NonZeroNumbered))
               => ret = DonateError("UnexpectedParameterNumber",
                                    AliasList[Least(NonZeroNumbered)].parameter_number)

C8_Witness ==
    /\ pc = "done" /\ tuple_inputs
    /\ Len(AliasList) = 2
    /\ AliasList[1].parameter_number = 0 /\ AliasList[1].parameter_index # <<>>
    /\ AliasList[2].parameter_number # 0 /\ AliasList[2].parameter_index = <<>>
    /\ ret.err = "UnexpectedParameterNumber"

(***************************************************************************)
(* C10, as claimed: every index in a returned set lies in                  *)
(* [0, number_of_parameters), also when an alias has a negative parameter  *)
(* number or first path component.                                         *)
(***************************************************************************)
C10_DonatedIndicesInRange ==
    (pc = "done" /\ ret.ok) => ret.set \subseteq ValidIndices

\* the bound the code does check
DonatedIndicesBelowCount ==
    (pc = "done" /\ ret.ok) => \A i \in ret.set : i < number_of_parameters

====
